---- MODULE Spec2Model ----
(***************************************************************************)
(* The scan session of src/src/App.jsx: the React state of the App         *)
(* component (mode, fileName, previewURL, result, progress, error), the    *)
(* camera stream held in streamRef, and the asynchronous activities the    *)
(* handlers start: uploadToAPI calls (fetch, fakeDelay, resp.json) with    *)
(* the setInterval timer of beginScanUI, getUserMedia calls of             *)
(* startCamera, and canvas.toBlob callbacks of onCapture.                  *)
(*                                                                         *)
(* Every handler runs to its next await in one step (JavaScript's event    *)
(* loop); the state updates of one handler are applied together and the    *)
(* [mode] effect of lines 35-42 runs with the handler that changed mode.   *)
(***************************************************************************)
EXTENDS Integers, Sequences, FiniteSets, TLC

VARIABLES mode, fileName, previewURL, result, progress, error,
          streamRef, live, camCalls, subs, toBlob, mounted

vars == <<mode, fileName, previewURL, result, progress, error,
          streamRef, live, camCalls, subs, toBlob, mounted>>

(* ---------------- bounds of the model ---------------- *)
\* asynchronous calls (uploadToAPI and startCamera) started in one behaviour
MaxCalls == 2
\* canvas.toBlob callbacks pending at once
MaxToBlob == 1

(* ---------------- program constants ---------------- *)
\* line 70: the tick stops ramping once p >= 96
Cap == 96
\* line 71: Math.random()*7, an increment in [0,7)
IncRange == 7
\* line 93: setProgress(100)
Full == 100

\* the increments a tick may add: Math.random()*7 sampled at 0 and 5
Incs == {i \in {0, 5} : i < IncRange}
\* the files the user may pick or drop; NoFile is files?.[0] undefined
NoFile == "undefined"
Files == {"leaf.png"}
CaptureName == "camera-capture.png"
\* line 14: useState(null)
null == [img |-> 0, label |-> "null"]
\* the labels of line 169 the remote may answer with
Labels == {"Organic", "Plastic"}
\* the bodies resp.json() may yield for the image of submission s: the
\* JSON objects the endpoint answers with; img names the image classified
Bodies(s) == {[img |-> s, label |-> l] : l \in Labels}
\* HTTP statuses of the response
Statuses == {200, 500}
\* messages of a rejected fetch or a rejected resp.json(); "" is an
\* exception without a message
RejectMessages == {"Failed to fetch", ""}
CameraMessage == "Unable to access camera"

\* resp.ok
RespOk(status) == status >= 200 /\ status <= 299
\* line 87
ScanFailed(status) == IF status = 500 THEN "Scan failed (500)" ELSE "Scan failed"
\* line 97 without its fallback: the error is e.message as it comes
ErrorMessageNoFallback(m) == m
\* line 97: e.message || 'Something went wrong while scanning'
ErrorMessage(m) == IF m = "" THEN "Something went wrong while scanning" ELSE m

\* the calls started so far
Calls == Len(subs) + Len(camCalls)

\* the submissions whose uploadToAPI has not reached its finally block;
\* an ended call is at "ok" (line 94 reached) or "failed" (the catch block)
InFlight == {s \in 1 .. Len(subs) : subs[s].pc \in {"fetch", "delay", "json"}}

Init ==
    /\ mode = "idle"
    /\ fileName = ""
    /\ previewURL = 0
    /\ result = null
    /\ progress = 0
    /\ error = ""
    /\ streamRef = 0
    /\ live = {}
    /\ camCalls = <<>>
    /\ subs = <<>>
    /\ toBlob = 0
    /\ mounted = TRUE

(* ---------------- camera (lines 35-63) ---------------- *)
\* lines 58-63 with streamRef.current = null of line 61 left out
stopCameraKeepsRef ==
    /\ live' = IF streamRef # 0 THEN live \ {streamRef} ELSE live
    /\ streamRef' = streamRef

\* lines 58-63
stopCamera ==
    /\ live' = IF streamRef # 0 THEN live \ {streamRef} ELSE live
    /\ streamRef' = 0

\* lines 35-42, for a handler that leaves mode at, or moves it to, a mode
\* other than camera: the effect runs only when mode changed
modeEffect(new) ==
    IF new = mode THEN UNCHANGED <<streamRef, live>> ELSE stopCamera

(* ---------------- submission (lines 65-102) ---------------- *)
\* lines 65-75 and 79-85: beginScanUI, setError(''), fetch issued.
\* Of a call: pc is where it is suspended, timer whether its interval is
\* set, cancels the clearInterval calls on it so far, fromIdle whether it
\* was started in mode idle, stale whether resetAll ran after its start.
uploadToAPI ==
    /\ Calls < MaxCalls
    /\ mode' = "scanning"
    /\ progress' = 0
    /\ error' = ""
    /\ subs' = Append(subs, [pc |-> "fetch", timer |-> TRUE, cancels |-> 0,
                             fromIdle |-> (mode = "idle"), stale |-> FALSE])
    /\ modeEffect("scanning")

\* line 100 left out: the call ends and its interval stays set
EndedLeaksTimer(s, outcome) == [subs EXCEPT ![s].pc = outcome]
\* line 100: endProgress() clears the interval; the call has ended
Ended(s, outcome) ==
    [subs EXCEPT ![s].pc = outcome, ![s].timer = FALSE, ![s].cancels = @ + 1]

\* lines 95-101 with setMode('idle') of line 98 left out
FailKeepsMode(s, m) ==
    /\ error' = ErrorMessage(m)
    /\ subs' = Ended(s, "failed")
    /\ UNCHANGED <<mode, streamRef, live>>
    /\ UNCHANGED <<fileName, previewURL, result, progress, camCalls, toBlob>>

\* lines 95-101
Fail(s, m) ==
    /\ error' = ErrorMessage(m)
    /\ mode' = "idle"
    /\ subs' = Ended(s, "failed")
    /\ modeEffect("idle")
    /\ UNCHANGED <<fileName, previewURL, result, progress, camCalls, toBlob>>

\* lines 85-88: the fetch resolves with a status
FetchResolve(s, status) ==
    /\ mounted /\ UNCHANGED mounted
    /\ s \in InFlight /\ subs[s].pc = "fetch"
    /\ IF RespOk(status)
          THEN /\ subs' = [subs EXCEPT ![s].pc = "delay"]
               /\ UNCHANGED <<mode, fileName, previewURL, result, progress,
                              error, streamRef, live, camCalls, toBlob>>
          ELSE Fail(s, ScanFailed(status))

\* line 85: the fetch rejects (network error)
FetchReject(s, m) ==
    /\ mounted /\ UNCHANGED mounted
    /\ s \in InFlight /\ subs[s].pc = "fetch"
    /\ Fail(s, m)

\* line 90: the fakeDelay timeout fires
DelayDone(s) ==
    /\ mounted /\ UNCHANGED mounted
    /\ s \in InFlight /\ subs[s].pc = "delay"
    /\ subs' = [subs EXCEPT ![s].pc = "json"]
    /\ UNCHANGED <<mode, fileName, previewURL, result, progress,
                   error, streamRef, live, camCalls, toBlob>>

\* lines 91-94 with setResult(data) of line 92 left out
JsonResolveNoResult(s, data) ==
    /\ mounted /\ UNCHANGED mounted
    /\ s \in InFlight /\ subs[s].pc = "json"
    /\ progress' = Full
    /\ mode' = "result"
    /\ subs' = Ended(s, "ok")
    /\ modeEffect("result")
    /\ UNCHANGED <<result, fileName, previewURL, error, camCalls, toBlob>>

\* lines 91-94 and 100: the body parses
JsonResolve(s, data) ==
    /\ mounted /\ UNCHANGED mounted
    /\ s \in InFlight /\ subs[s].pc = "json"
    /\ result' = data
    /\ progress' = Full
    /\ mode' = "result"
    /\ subs' = Ended(s, "ok")
    /\ modeEffect("result")
    /\ UNCHANGED <<fileName, previewURL, error, camCalls, toBlob>>

\* line 91: the body does not parse
JsonReject(s, m) ==
    /\ mounted /\ UNCHANGED mounted
    /\ s \in InFlight /\ subs[s].pc = "json"
    /\ Fail(s, m)

\* lines 68-73: one tick of the interval of submission s
Tick(s, inc) ==
    /\ mounted /\ UNCHANGED mounted
    /\ s \in 1 .. Len(subs) /\ subs[s].timer
    /\ IF progress >= Cap
          THEN /\ progress' = Cap
               /\ subs' = [subs EXCEPT ![s].timer = FALSE, ![s].cancels = @ + 1]
          ELSE /\ progress' = progress + inc
               /\ UNCHANGED subs
    /\ UNCHANGED <<mode, fileName, previewURL, result, error,
                   streamRef, live, camCalls, toBlob>>

(* ---------------- acquisition (lines 104-141) ---------------- *)
\* lines 104-111
onPickFile(f) ==
    /\ mounted
    /\ IF f = NoFile
          THEN UNCHANGED vars
          ELSE /\ uploadToAPI
               /\ fileName' = f
               /\ previewURL' = Len(subs) + 1
               /\ UNCHANGED <<result, camCalls, toBlob, mounted>>

\* lines 113-121
onDrop(f) ==
    /\ mounted
    /\ IF f = NoFile
          THEN UNCHANGED vars
          ELSE /\ uploadToAPI
               /\ fileName' = f
               /\ previewURL' = Len(subs) + 1
               /\ UNCHANGED <<result, camCalls, toBlob, mounted>>

\* lines 123-133 and 252: the Capture button, shown while mode = camera
onCapture ==
    /\ mounted /\ UNCHANGED mounted
    /\ mode = "camera"
    /\ toBlob < MaxToBlob
    /\ toBlob' = toBlob + 1
    /\ UNCHANGED <<mode, fileName, previewURL, result, progress, error,
                   streamRef, live, camCalls, subs>>

\* lines 133-140: the toBlob callback. setMode('camera') of line 138 and
\* setMode('scanning') of line 66 are applied in one batch, so the render
\* that follows sees mode = scanning
toBlobCallback(blob) ==
    /\ mounted /\ UNCHANGED mounted
    /\ toBlob > 0
    /\ toBlob' = toBlob - 1
    /\ IF ~blob
          THEN UNCHANGED <<mode, fileName, previewURL, result, progress,
                           error, streamRef, live, camCalls, subs>>
          ELSE /\ uploadToAPI
               /\ previewURL' = Len(subs) + 1
               /\ fileName' = CaptureName
               /\ UNCHANGED <<result, camCalls>>

(* ---------------- session controls ---------------- *)
\* lines 143-150 with setProgress(0) of line 146 left out
resetAllKeepsProgress ==
    /\ mounted /\ UNCHANGED mounted
    /\ mode = "result" /\ result # null
    /\ mode' = "idle"
    /\ result' = null
    /\ error' = ""
    /\ previewURL' = 0
    /\ fileName' = ""
    /\ subs' = [s \in 1 .. Len(subs) |->
                   IF s \in InFlight THEN [subs[s] EXCEPT !.stale = TRUE]
                                     ELSE subs[s]]
    /\ modeEffect("idle")
    /\ UNCHANGED <<progress, camCalls, toBlob>>

\* lines 143-150, reached from the results modal of line 319
resetAll ==
    /\ mounted /\ UNCHANGED mounted
    /\ mode = "result" /\ result # null
    /\ mode' = "idle"
    /\ result' = null
    /\ progress' = 0
    /\ error' = ""
    /\ previewURL' = 0
    /\ fileName' = ""
    /\ subs' = [s \in 1 .. Len(subs) |->
                   IF s \in InFlight THEN [subs[s] EXCEPT !.stale = TRUE]
                                     ELSE subs[s]]
    /\ modeEffect("idle")
    /\ UNCHANGED <<camCalls, toBlob>>

\* lines 196 and 249 with the effect of lines 35-37 and startCamera up to
\* its await (lines 44-47)
openCamera ==
    /\ mounted /\ UNCHANGED mounted
    /\ mode # "camera"
    /\ Calls < MaxCalls
    /\ mode' = "camera"
    /\ error' = ""
    /\ camCalls' = Append(camCalls, "gum")
    /\ UNCHANGED <<fileName, previewURL, result, progress, streamRef, live,
                   subs, toBlob>>

\* line 253 with the effect of lines 38-40
closeCameraButton ==
    /\ mounted /\ UNCHANGED mounted
    /\ mode = "camera"
    /\ mode' = "idle"
    /\ stopCamera
    /\ UNCHANGED <<fileName, previewURL, result, progress, error, camCalls,
                   subs, toBlob>>

\* line 47 resolves: the stream is live; lines 48-50 attach and play it
getUserMediaResolve(c) ==
    /\ mounted /\ UNCHANGED mounted
    /\ c \in 1 .. Len(camCalls) /\ camCalls[c] = "gum"
    /\ live' = live \cup {c}
    /\ camCalls' = [camCalls EXCEPT ![c] = "play"]
    /\ UNCHANGED <<mode, fileName, previewURL, result, progress, error,
                   streamRef, subs, toBlob>>

\* lines 47 and 53-55: permission denied or no device
getUserMediaReject(c) ==
    /\ mounted /\ UNCHANGED mounted
    /\ c \in 1 .. Len(camCalls) /\ camCalls[c] = "gum"
    /\ error' = CameraMessage
    /\ camCalls' = [camCalls EXCEPT ![c] = "err"]
    /\ UNCHANGED <<mode, fileName, previewURL, result, progress,
                   streamRef, live, subs, toBlob>>

\* lines 50-52: play() resolves
playResolve(c) ==
    /\ mounted /\ UNCHANGED mounted
    /\ c \in 1 .. Len(camCalls) /\ camCalls[c] = "play"
    /\ streamRef' = c
    /\ camCalls' = [camCalls EXCEPT ![c] = "ok"]
    /\ UNCHANGED <<mode, fileName, previewURL, result, progress, error,
                   live, subs, toBlob>>

\* lines 50 and 53-55: play() rejects
playReject(c) ==
    /\ mounted /\ UNCHANGED mounted
    /\ c \in 1 .. Len(camCalls) /\ camCalls[c] = "play"
    /\ error' = CameraMessage
    /\ camCalls' = [camCalls EXCEPT ![c] = "err"]
    /\ UNCHANGED <<mode, fileName, previewURL, result, progress,
                   streamRef, live, subs, toBlob>>

\* the component is torn down: no effect of the component returns a cleanup
\* that stops the camera (lines 35-42), so nothing but mounted changes.
\* React drops the state updates of an unmounted component: the session
\* is followed no further
unmount ==
    /\ mounted
    /\ mounted' = FALSE
    /\ UNCHANGED <<mode, fileName, previewURL, result, progress, error,
                   streamRef, live, camCalls, subs, toBlob>>

\* the handlers and continuations of the component, which run (with
\* effect on the session) while it is mounted
Handlers ==
    \/ \E f \in Files \cup {NoFile} : onPickFile(f)
    \/ \E f \in Files \cup {NoFile} : onDrop(f)
    \/ onCapture
    \/ \E blob \in BOOLEAN : toBlobCallback(blob)
    \/ \E s \in 1 .. MaxCalls, status \in Statuses : FetchResolve(s, status)
    \/ \E s \in 1 .. MaxCalls, m \in RejectMessages : FetchReject(s, m)
    \/ \E s \in 1 .. MaxCalls : DelayDone(s)
    \/ \E s \in 1 .. MaxCalls : \E data \in Bodies(s) : JsonResolve(s, data)
    \/ \E s \in 1 .. MaxCalls, m \in RejectMessages : JsonReject(s, m)
    \/ \E s \in 1 .. MaxCalls, inc \in Incs : Tick(s, inc)
    \/ resetAll
    \/ openCamera
    \/ closeCameraButton
    \/ \E c \in 1 .. MaxCalls : getUserMediaResolve(c)
    \/ \E c \in 1 .. MaxCalls : getUserMediaReject(c)
    \/ \E c \in 1 .. MaxCalls : playResolve(c)
    \/ \E c \in 1 .. MaxCalls : playReject(c)

Next == Handlers \/ unmount

Spec == Init /\ [][Next]_vars

\* the continuations of submission s that the event loop runs once they
\* are ready: the fetch settles, the delay elapses, the body is read
Respond(s) ==
    \/ \E status \in Statuses : FetchResolve(s, status)
    \/ \E m \in RejectMessages : FetchReject(s, m)
Parsed(s) ==
    \/ \E data \in Bodies(s) : JsonResolve(s, data)
    \/ \E m \in RejectMessages : JsonReject(s, m)

\* the remote call eventually responds or fails, timeouts fire and promises
\* settle; nothing is assumed of the interval's ticks or of the user
FairSpec ==
    /\ Spec
    /\ \A s \in 1 .. MaxCalls :
          WF_vars(Respond(s)) /\ WF_vars(DelayDone(s)) /\ WF_vars(Parsed(s))

\* lines 108, 118 and 135: the object URLs URL.createObjectURL has made for
\* previews, one per acquisition
PreviewURLs == 1 .. Len(subs)
\* the preview URLs URL.revokeObjectURL was called on: the one call, of
\* line 166, is on the report's URL
RevokedURLs == {}

(***************************************************************************)
(* Properties                                                              *)
(***************************************************************************)
\* the submissions that have ended
EndedSubs == {s \in 1 .. Len(subs) : subs[s].pc \in {"ok", "failed"}}
\* lines 385 and 388: the percentage the Scanning view shows
ScanningPercent == IF progress > 100 THEN 100 ELSE progress

\* C1: in every reachable state at most one submission is in flight (a new
\* acquisition while one is in flight starts no second submission).
AtMostOneInFlight == Cardinality(InFlight) <= 1

\* C2: a submission that was in flight when resetAll ran (stale) and ends
\* afterwards leaves mode, result and progress of the session as they are.
LateResultDiscarded ==
    [][\A s \in InFlight :
          (subs[s].stale /\ subs'[s].pc \in {"ok", "failed"})
             => (mode' = mode /\ result' = result /\ progress' = progress)]_vars

\* the steps of a submission started in mode idle: its start sets mode to
\* scanning, the arrival of its response and the end of its delay leave
\* mode alone, its success sets mode to result and its failure sets mode
\* to idle with error set
IdleSubmissionSteps ==
    /\ (mode = "idle" /\ Len(subs') > Len(subs)) => mode' = "scanning"
    /\ \A s \in InFlight : subs[s].fromIdle =>
          /\ subs'[s].pc = "ok" => mode' = "result"
          /\ subs'[s].pc = "failed" => (mode' = "idle" /\ error' # "")
          /\ (subs'[s].pc \in {"delay", "json"} /\ subs'[s].pc # subs[s].pc)
                => mode' = mode

\* C3 (as amended): for a payload submitted while mode = idle, the
\* submission's start sets mode = scanning, its own intermediate steps keep
\* mode, its success sets mode = result and its failure sets mode = idle
\* with error non-empty.
IdleSubmissionTransitions == [][IdleSubmissionSteps]_vars

\* C3 (as claimed): the modes of a submission started in idle are idle,
\* scanning, result or idle, scanning, idle: the steps above, and mode is
\* scanning for as long as the submission is in flight.
IdleSubmissionModeSequence ==
    [][/\ IdleSubmissionSteps
       /\ \A s \in InFlight : subs[s].fromIdle => mode = "scanning"]_vars

\* C3 witness: one submission started in idle has succeeded and another
\* has failed, the session being idle with its error shown.
IdleSubmissionsEnded ==
    /\ mode = "idle" /\ error # ""
    /\ \E s, t \in EndedSubs :
          /\ subs[s].fromIdle /\ subs[s].pc = "ok"
          /\ subs[t].fromIdle /\ subs[t].pc = "failed"

FailureLeavesNoResult ==
    [][\A s \in InFlight :
          subs'[s].pc = "failed"
             => (mode' = "idle" /\ error' # "" /\ result' = null)]_vars

\* C6: while the session is scanning with a submission in flight, no step
\* other than the start of a submission lowers progress.
ProgressMonotone ==
    [][(mode = "scanning" /\ InFlight # {} /\ Len(subs') = Len(subs))
          => progress' >= progress]_vars

\* C7: while scanning with a response still awaited, progress is at most
\* 96; and the percentage shown is 100 only once a submission succeeded.
ProgressCappedBeforeResponse ==
    /\ (mode = "scanning" /\ \E s \in InFlight : subs[s].pc = "fetch")
          => progress <= Cap
    /\ ScanningPercent = Full => \E s \in EndedSubs : subs[s].pc = "ok"

SuccessStaysFull ==
    [][/\ \A s \in InFlight :
             subs'[s].pc = "ok" => /\ mode' = "result"
                                   /\ progress' = Full
                                   /\ result' \in Bodies(s)
       /\ mode = "result" => progress = Full]_vars

\* C10: resetAll while mode = result (the one step that clears a held
\* previewURL) sets mode = idle, result = null, error = '' and progress = 0.
ResetClearsSession ==
    [][(mode = "result" /\ previewURL # 0 /\ previewURL' = 0)
          => /\ mode' = "idle"
             /\ result' = null
             /\ error' = ""
             /\ progress' = 0]_vars

\* C10 witness: a submission has succeeded and the session was reset since.
SessionWasReset ==
    /\ mode = "idle" /\ previewURL = 0 /\ result = null /\ progress = 0
    /\ \E s \in EndedSubs : subs[s].pc = "ok"

\* C11: in every reachable state where mode is not camera, no camera stream
\* has live tracks.
NoStreamOutsideCamera == mode # "camera" => live = {}

\* C12: at most one camera stream is open at any time.
AtMostOneStream == Cardinality(live) <= 1

\* C13: when getUserMedia rejects, the session is not in camera mode (mode
\* has the value it had before the camera was requested, which is never
\* camera) and error is the camera message.
CameraFailureKeepsMode ==
    [][\A c \in 1 .. Len(camCalls) :
          (camCalls[c] = "gum" /\ camCalls'[c] = "err")
             => (mode' # "camera" /\ error' = CameraMessage)]_vars

\* C14: a step that runs stopCamera (the effect of a mode change to a mode
\* other than camera) leaves the handle empty and the held stream without
\* live tracks, stops no other stream, and changes nothing when the handle
\* was empty already.
StopCameraIdempotent ==
    [][(mode' # mode /\ mode' # "camera")
          => /\ streamRef' = 0
             /\ streamRef # 0 => live' = live \ {streamRef}
             /\ streamRef = 0 => live' = live]_vars

\* C14 witness: a capture made in camera mode has ended; stopCamera ran
\* when the capture left camera mode and again when the submission ended,
\* and the stream the camera had opened has no live tracks.
StoppedTwice ==
    /\ camCalls = <<"ok">> /\ live = {} /\ streamRef = 0
    /\ Len(subs) = 1 /\ 1 \in EndedSubs /\ ~subs[1].fromIdle

\* C15: every preview URL made by an acquisition that has ended and no
\* longer held by the session (superseded by a later acquisition, or
\* reset) has been revoked.
PreviewsReleased ==
    \A u \in PreviewURLs :
        (u \in EndedSubs /\ u # previewURL) => u \in RevokedURLs

\* C16: after teardown the stream the component held has no live tracks.
TeardownReleasesStream == (~mounted /\ streamRef # 0) => streamRef \notin live

\* C17: while the component is mounted every submission in flight
\* eventually ends with its interval cleared, and a session in scanning
\* eventually leaves scanning.
SubmissionTerminates ==
    /\ \A s \in 1 .. MaxCalls :
          (s \in InFlight) ~> (~mounted \/ (s \in EndedSubs /\ ~subs[s].timer))
    /\ (mode = "scanning") ~> (~mounted \/ mode \in {"result", "idle", "camera"})

\* C17 witness: a submission has ended while its interval was still
\* ramping: endProgress was the only clearInterval on it.
EndedWhileRamping ==
    /\ mounted /\ mode = "result" /\ progress = Full
    /\ \E s \in EndedSubs : subs[s].cancels = 1 /\ subs[s].pc = "ok"

\* C18: in every reachable state, mode = scanning implies a submission is
\* in flight.
ScanningHasSubmission == mode = "scanning" => InFlight # {}

\* C18 witness: the session is scanning again after a submission failed.
ScanningAfterFailure ==
    /\ mode = "scanning" /\ InFlight # {}
    /\ \E s \in EndedSubs : subs[s].pc = "failed"

\* C19, for a session's first submission made alone: mode = result
\* implies error is empty.
ResultWithoutError == (Len(subs) = 1 /\ mode = "result") => error = ""

\* C20: whenever mode = result, the stored result is the response to the
\* acquisition whose preview the session holds.
ResultMatchesPreview == mode = "result" => result.img = previewURL

====
